---- MODULE Spec2Model ----
(***************************************************************************)
(* A model of src/player.py: the Player class (ability scores, race,       *)
(* racial traits) and setup_player.                                        *)
(*                                                                         *)
(* Control only ever rests where the program waits: at the top level       *)
(* between two method calls ("idle") and inside the two input() calls      *)
(* ("score_prompt", "race_prompt").  Every action runs the code from one   *)
(* such point to the next.                                                 *)
(***************************************************************************)
EXTENDS Integers, Sequences, FiniteSets, TLC

VARIABLES
    abilities,     \* self.abilities: ability name -> score (0 = unset)
    race,          \* self.race: NoRace (None) or a race name
    pc,            \* "idle" | "score_prompt" | "race_prompt"
    cur,           \* position of the for loop of set_abilities in AbilityOrder
    scores,        \* the local list `scores` of the latest set_abilities call
    report,        \* what the latest step printed last (NoReport: nothing)
    exc,           \* the exception the latest step propagated (NoExc: none)
    driver,        \* who calls the methods: "direct" or "setup_player"
    randomize,     \* setup_player's argument
    step,          \* setup_player's position
    setupLog,      \* the calls setup_player has made, with their flag
    generated,     \* history: `scores` as generated at line 61
    shuffled,      \* history: `scores` after random.shuffle (line 63)
    startedFresh,  \* history: the latest set_abilities call began with all scores 0
    selections,    \* history: accepted selections in the latest set_abilities call
    inputKind,     \* history: the latest step's input was "valid" | "invalid" | "none"
    pre,           \* history: abilities and race before the latest set_racial_traits call
    run,           \* history: length of the current run of consecutive set_racial_traits calls
    runBase,       \* history: abilities before the first call of that run
    last,          \* history: the latest call, as <<method, flag>>
    applied,       \* history: set_racial_traits calls that reached lines 105-107
    rolls,         \* generate_score: the local list `rolls`
    ri,            \* generate_score: position of the reroll loop
    gpc,           \* generate_score: "start" | "reroll" | "done"
    result         \* generate_score: the returned score (0 before return)

playerVars == <<abilities, race>>
callVars   == <<pc, cur, scores, report, exc>>
driverVars == <<driver, randomize, step, setupLog>>
histVars   == <<generated, shuffled, startedFresh, selections, inputKind,
                pre, run, runBase, last, applied>>
diceVars   == <<rolls, ri, gpc, result>>
vars       == <<abilities, race, pc, cur, scores, report, exc,
                driver, randomize, step, setupLog,
                generated, shuffled, startedFresh, selections, inputKind,
                pre, run, runBase, last, applied,
                rolls, ri, gpc, result>>

----------------------------------------------------------------------------
(* Program constants *)

\* random.randint(1, 6): the faces of a die
DieSides == 6

\* range(4): dice per score
NumDice == 4

\* range(6): scores generated per call
NumScores == 6

\* the keys of self.abilities, in the order __init__ inserts them
AbilityOrder ==
    <<"charisma", "constitution", "dexterity", "intelligence", "strength", "wisdom">>

AbilityNames == {AbilityOrder[i] : i \in 1..Len(AbilityOrder)}

\* races = ["High Elf", "Human"]
races == <<"High Elf", "Human">>

RaceSet == {races[i] : i \in 1..Len(races)}

\* self.race = None
NoRace == "None"

\* the messages of the three print calls that report a problem
InvalidMsg == "Invalid choice!"

AbilitiesMsg == "Abilities are not set! Call set_abilities method first."

RaceMsg == "Race is not set! Call set_race method first."

NoReport == "-"

NoExc == "-"

----------------------------------------------------------------------------
(* Bounds of the exploration *)

\* Dice outcomes explored where the scores of one set_abilities call are
\* what matters (SpecShuffle, SpecPrompt): faces 1..LowFaces and the top face.
LowFaces == 1

\* set_racial_traits calls explored on one character: in a row, and past the
\* two checks of lines 100-103.
MaxTraitCalls == 3

----------------------------------------------------------------------------
(* Sequences *)

RECURSIVE SumSeq(_)
SumSeq(s) == IF s = <<>> THEN 0 ELSE Head(s) + SumSeq(Tail(s))

RECURSIVE Insert(_, _)
Insert(x, s) ==
    IF s = <<>> THEN <<x>>
    ELSE IF x <= Head(s) THEN <<x>> \o s
    ELSE <<Head(s)>> \o Insert(x, Tail(s))

\* sorted(s)
RECURSIVE Sorted(_)
Sorted(s) == IF s = <<>> THEN <<>> ELSE Insert(Head(s), Sorted(Tail(s)))

\* x in s
InList(x, s) == \E i \in 1..Len(s) : s[i] = x

\* s.remove(x): the list without the first occurrence of x (x is in s)
RECURSIVE RemoveBroken(_, _)
RemoveBroken(x, s) ==
    IF s = <<>> THEN <<>>
    ELSE IF Head(s) = x THEN RemoveBroken(x, Tail(s))
    ELSE <<Head(s)>> \o RemoveBroken(x, Tail(s))

RECURSIVE Remove(_, _)
Remove(x, s) ==
    IF s = <<>> THEN <<>>
    ELSE IF Head(s) = x THEN Tail(s)
    ELSE <<Head(s)>> \o Remove(x, Tail(s))

\* how often x occurs in s
RECURSIVE Count(_, _)
Count(x, s) ==
    IF s = <<>> THEN 0
    ELSE (IF Head(s) = x THEN 1 ELSE 0) + Count(x, Tail(s))

----------------------------------------------------------------------------
(* generate_score *)

DiceVectors == [1..NumDice -> 1..DieSides]

\* rolls[i] = random.randint(1, 6), taken when the die shows 1
RerollAt(rs, i, d) == IF rs[i] = 1 THEN [rs EXCEPT ![i] = d] ELSE rs

\* sum(sorted(rolls)[1:])
DropLowestSumAll(rs) == SumSeq(Sorted(rs))

DropLowestSum(rs) == SumSeq(Tail(Sorted(rs)))

\* the loop of lines 56-58 from position i on, the rerolls showing rr
RECURSIVE RerollFrom(_, _, _)
RerollFrom(rs, rr, i) ==
    IF i > NumDice THEN rs ELSE RerollFrom(RerollAt(rs, i, rr[i]), rr, i + 1)

\* generate_score() when the four dice show rs and a reroll of die i shows rr[i]
generate_score(rs, rr) == DropLowestSum(RerollFrom(rs, rr, 1))

----------------------------------------------------------------------------
(* The scores and the lists of scores explored *)

Faces == (1..LowFaces) \cup {DieSides}

\* the dice outcomes explored by the methods: all dice of a throw show one face
UniformDice == {[i \in 1..NumDice |-> f] : f \in Faces}

ScoreChoices == {generate_score(rs, rr) : rs \in UniformDice, rr \in UniformDice}

\* scores = [generate_score() for _ in range(6)]
AllLists == [1..NumScores -> ScoreChoices]

MinChoice == CHOOSE s \in ScoreChoices : \A u \in ScoreChoices : s <= u

MaxChoice == CHOOSE s \in ScoreChoices : \A u \in ScoreChoices : u <= s

\* The lists explored where methods are called in any order (Spec): made of
\* the lowest and the highest score, one list per multiset (the nondecreasing
\* one).  The shuffle and the user's selections reorder them.
SortedLists ==
    {g \in [1..NumScores -> {MinChoice, MaxChoice}] :
        \A i \in 1..(NumScores - 1) : g[i] <= g[i + 1]}

\* random.shuffle(scores): the outcomes are the permutations of the positions
AllPerms ==
    {p \in [1..NumScores -> 1..NumScores] :
        \A i, j \in 1..NumScores : p[i] = p[j] => i = j}

Identity == [i \in 1..NumScores |-> i]

Reversal == [i \in 1..NumScores |-> NumScores + 1 - i]

SomePerms == {Identity, Reversal}

Permute(s, p) == [i \in 1..Len(s) |-> s[p[i]]]

----------------------------------------------------------------------------
(* input() and int() *)

Digits == <<"0", "1", "2", "3", "4", "5", "6", "7", "8", "9">>

IsDigit(c) == \E d \in 1..Len(Digits) : Digits[d] = c

DigitValue(c) == (CHOOSE d \in 1..Len(Digits) : Digits[d] = c) - 1

\* str(n) for n >= 0, a sequence of characters
RECURSIVE Decimal(_)
Decimal(n) ==
    IF n < 10 THEN <<Digits[n + 1]>>
    ELSE Decimal(n \div 10) \o <<Digits[(n % 10) + 1]>>

\* text.strip(): blanks off both ends
RECURSIVE LStrip(_)
LStrip(t) == IF t # <<>> /\ Head(t) = " " THEN LStrip(Tail(t)) ELSE t

RECURSIVE RStrip(_)
RStrip(t) ==
    IF t # <<>> /\ t[Len(t)] = " " THEN RStrip(SubSeq(t, 1, Len(t) - 1)) ELSE t

Strip(t) == RStrip(LStrip(t))

HasSign(t) == t # <<>> /\ Head(t) \in {"+", "-"}

Unsigned(t) == IF HasSign(t) THEN Tail(t) ELSE t

\* the digits of an integer literal: digits, single underscores between them
WellFormed(b) ==
    /\ b # <<>>
    /\ \A i \in 1..Len(b) : IsDigit(b[i]) \/ b[i] = "_"
    /\ IsDigit(b[1]) /\ IsDigit(b[Len(b)])
    /\ \A i \in 1..(Len(b) - 1) : ~(b[i] = "_" /\ b[i + 1] = "_")

RECURSIVE DigitsValue(_, _)
DigitsValue(b, acc) ==
    IF b = <<>> THEN acc
    ELSE IF Head(b) = "_" THEN DigitsValue(Tail(b), acc)
    ELSE DigitsValue(Tail(b), 10 * acc + DigitValue(Head(b)))

\* int(text): the value, or ValueError (ok = FALSE)
python_int(t) ==
    LET s == Strip(t)
        b == Unsigned(s)
    IN  IF WellFormed(b)
        THEN [ok |-> TRUE,
              val |-> IF HasSign(s) /\ Head(s) = "-"
                      THEN 0 - DigitsValue(b, 0) ELSE DigitsValue(b, 0)]
        ELSE [ok |-> FALSE, val |-> 0]

\* what the user types at the score prompt: every explored score, a number
\* that is no score, the top score padded, signed, with an underscore and as a
\* float, a word, and the empty line
ScoreTexts ==
    {Decimal(s) : s \in ScoreChoices}
    \cup {Decimal(99),
          <<" ">> \o Decimal(MaxChoice) \o <<" ">>,
          <<"-">> \o Decimal(MaxChoice),
          <<"0", "_">> \o Decimal(MaxChoice),
          Decimal(MaxChoice) \o <<".", "0">>,
          <<"a", "b", "c">>,
          <<>>}

\* int(text) of each of them
IntOf == [t \in ScoreTexts |-> python_int(t)]

\* what the user types at the race prompt
RaceTexts == RaceSet \cup {"high elf", "Elf", "Dwarf", ""}

----------------------------------------------------------------------------
(* Player *)

Unset(ab) == {a \in AbilityNames : ab[a] = 0}

\* Player.__init__
NewAbilities == [a \in AbilityNames |-> 0]

PosOf(a) == CHOOSE i \in 1..Len(AbilityOrder) : AbilityOrder[i] = a

\* for ability, score in zip(self.abilities, scores): self.abilities[ability] = score
AssignShifted(ab, s) ==
    [a \in AbilityNames |-> IF PosOf(a) = 1 THEN s[1] ELSE s[PosOf(a) - 1]]

AssignAll(ab, s) ==
    [a \in AbilityNames |-> IF PosOf(a) <= Len(s) THEN s[PosOf(a)] ELSE ab[a]]

\* the for/while of lines 67-68 from position k on: the first position whose
\* ability is still 0 (the next prompt), or past the end (the method returns)
FirstPromptStay(ab, k) == k

RECURSIVE FirstPrompt(_, _)
FirstPrompt(ab, k) ==
    IF k > Len(AbilityOrder) THEN k
    ELSE IF ab[AbilityOrder[k]] = 0 THEN k
    ELSE FirstPrompt(ab, k + 1)

\* lines 100-103: what set_racial_traits reports
TraitsReportRaceFirst(ab, rc) ==
    IF rc = NoRace THEN RaceMsg
    ELSE IF \E a \in AbilityNames : ab[a] = 0 THEN AbilitiesMsg
    ELSE NoReport

TraitsReport(ab, rc) ==
    IF \E a \in AbilityNames : ab[a] = 0 THEN AbilitiesMsg
    ELSE IF rc = NoRace THEN RaceMsg
    ELSE NoReport

\* lines 105-107: the bonuses of a race
BonusBothRaces(ab, rc) ==
    [ab EXCEPT !["charisma"] = @ + 1, !["dexterity"] = @ + 2]

Bonus(ab, rc) ==
    IF rc = "High Elf"
    THEN [ab EXCEPT !["charisma"] = @ + 1, !["dexterity"] = @ + 2]
    ELSE ab

\* lines 100-107: the abilities after set_racial_traits
TraitsOnce(ab, rc) ==
    IF TraitsReport(ab, rc) = NoReport /\ run = 0 THEN Bonus(ab, rc) ELSE ab

Traits(ab, rc) == IF TraitsReport(ab, rc) = NoReport THEN Bonus(ab, rc) ELSE ab

----------------------------------------------------------------------------
(* The callers: someone calling the methods of one Player in any order       *)
(* ("direct"), and setup_player                                              *)

NoStep == "-"

\* lines 113-120: the calls of setup_player in their order
SetupCalls == <<"set_abilities", "set_race", "set_racial_traits">>

\* the flag setup_player(rnd) passes: the default True, or False
SetupFlag(rnd) == IF rnd THEN TRUE ELSE FALSE

FlagText(r) == IF r THEN "True" ELSE "False"

MayCall(m, r) ==
    /\ pc = "idle"
    /\ \/ driver = "direct"
       \/ driver = "setup_player" /\ step = m /\ r = SetupFlag(randomize)

StepAfterTraitsFirst(m) ==
    IF m = "set_abilities" THEN "set_racial_traits"
    ELSE IF m = "set_racial_traits" THEN "set_race"
    ELSE "returned"

StepAfter(m) ==
    IF m = "set_abilities" THEN "set_race"
    ELSE IF m = "set_race" THEN "set_racial_traits"
    ELSE "returned"

\* the caller's side of a call of m with flag r ("True", "False", or "-" for
\* a method without one) that returns at once or waits for input
Called(m, r, returns) ==
    /\ last' = <<m, r>>
    /\ setupLog' = IF driver = "setup_player" THEN Append(setupLog, <<m, r>>)
                   ELSE setupLog
    /\ step' = IF driver = "setup_player" /\ returns THEN StepAfter(m) ELSE step
    /\ UNCHANGED <<driver, randomize>>

\* the caller's side of an input step: the method goes on waiting, returns or raises
Resumed(m, returns, raises) ==
    /\ step' = IF driver # "setup_player" THEN step
               ELSE IF raises THEN "raised"
               ELSE IF returns THEN StepAfter(m)
               ELSE step
    /\ UNCHANGED <<driver, randomize, setupLog, last>>

NoPre == [set |-> FALSE]

\* history of a call other than set_racial_traits
NotTraits ==
    /\ pre' = NoPre
    /\ run' = 0
    /\ runBase' = NoPre
    /\ UNCHANGED applied

----------------------------------------------------------------------------
(* set_abilities *)

\* whether the text entered at the score prompt is a choice: an integer that
\* is in the list
ScoreEntry(text, pool) ==
    IF IntOf[text].ok /\ InList(IntOf[text].val, pool)
    THEN "valid" ELSE "invalid"

\* set_abilities(True), the scores drawn from lists and the shuffle from perms
SetAbilitiesRandom(lists, perms) ==
    /\ MayCall("set_abilities", TRUE)
    /\ \E g \in lists, p \in perms :
        /\ generated' = g
        /\ shuffled' = Permute(g, p)
        /\ scores' = Permute(g, p)
        /\ abilities' = AssignAll(abilities, Permute(g, p))
    /\ startedFresh' = (Unset(abilities) = AbilityNames)
    /\ selections' = 0
    /\ inputKind' = "none"
    /\ pc' = "idle"
    /\ cur' = 0
    /\ report' = NoReport
    /\ exc' = NoExc
    /\ Called("set_abilities", FlagText(TRUE), TRUE)
    /\ NotTraits
    /\ UNCHANGED <<race, diceVars>>

\* set_abilities(False) up to the first input(), or to its return when no
\* ability is 0
SetAbilitiesPrompted(lists) ==
    /\ MayCall("set_abilities", FALSE)
    /\ \E g \in lists :
        /\ generated' = g
        /\ scores' = g
    /\ shuffled' = <<>>
    /\ startedFresh' = (Unset(abilities) = AbilityNames)
    /\ selections' = 0
    /\ inputKind' = "none"
    /\ LET k == FirstPrompt(abilities, 1)
           returns == k > Len(AbilityOrder)
       IN  /\ pc' = IF returns THEN "idle" ELSE "score_prompt"
           /\ cur' = IF returns THEN 0 ELSE k
           /\ Called("set_abilities", FlagText(FALSE), returns)
    /\ report' = NoReport
    /\ exc' = NoExc
    /\ NotTraits
    /\ UNCHANGED <<abilities, race, diceVars>>

\* lines 70-75 and the loops around them: the user enters text at the score prompt
ScoreInput ==
    /\ pc = "score_prompt"
    /\ \E text \in ScoreTexts :
        LET n == IntOf[text] IN
        /\ inputKind' = ScoreEntry(text, scores)
        /\ IF ~n.ok
           THEN \* int() raises ValueError, which nothing catches
                /\ exc' = "ValueError"
                /\ pc' = "idle"
                /\ cur' = 0
                /\ report' = NoReport
                /\ Resumed("set_abilities", FALSE, TRUE)
                /\ UNCHANGED <<abilities, scores, selections>>
           ELSE IF InList(n.val, scores)
           THEN LET ab == [abilities EXCEPT ![AbilityOrder[cur]] = n.val]
                    k == FirstPrompt(ab, cur)
                    returns == k > Len(AbilityOrder)
                IN  /\ abilities' = ab
                    /\ scores' = Remove(n.val, scores)
                    /\ selections' = selections + 1
                    /\ pc' = IF returns THEN "idle" ELSE "score_prompt"
                    /\ cur' = IF returns THEN 0 ELSE k
                    /\ report' = NoReport
                    /\ exc' = NoExc
                    /\ Resumed("set_abilities", returns, FALSE)
           ELSE /\ report' = InvalidMsg
                /\ exc' = NoExc
                /\ Resumed("set_abilities", FALSE, FALSE)
                /\ UNCHANGED <<abilities, scores, selections, pc, cur>>
    /\ UNCHANGED <<race, generated, shuffled, startedFresh,
                   pre, run, runBase, applied, diceVars>>

----------------------------------------------------------------------------
(* set_race *)

ClearAbilitiesCall ==
    /\ scores' = <<>>
    /\ generated' = <<>>
    /\ shuffled' = <<>>
    /\ startedFresh' = FALSE
    /\ selections' = 0
    /\ cur' = 0

\* set_race(True)
SetRaceRandom ==
    /\ MayCall("set_race", TRUE)
    /\ \E c \in RaceSet : race' = c
    /\ pc' = "idle"
    /\ report' = NoReport
    /\ exc' = NoExc
    /\ inputKind' = "none"
    /\ ClearAbilitiesCall
    /\ Called("set_race", FlagText(TRUE), TRUE)
    /\ NotTraits
    /\ UNCHANGED <<abilities, diceVars>>

\* set_race(False) up to the first input(), or to its return when race is set
SetRacePromptedAlways ==
    /\ MayCall("set_race", FALSE)
    /\ pc' = "race_prompt"
    /\ Called("set_race", FlagText(FALSE), FALSE)
    /\ report' = NoReport
    /\ exc' = NoExc
    /\ inputKind' = "none"
    /\ ClearAbilitiesCall
    /\ NotTraits
    /\ UNCHANGED <<abilities, race, diceVars>>

SetRacePrompted ==
    /\ MayCall("set_race", FALSE)
    /\ pc' = IF race = NoRace THEN "race_prompt" ELSE "idle"
    /\ Called("set_race", FlagText(FALSE), race # NoRace)
    /\ report' = NoReport
    /\ exc' = NoExc
    /\ inputKind' = "none"
    /\ ClearAbilitiesCall
    /\ NotTraits
    /\ UNCHANGED <<abilities, race, diceVars>>

\* whether the text entered at the race prompt is a choice: the name of a race
RaceEntry(text) == IF text \in RaceSet THEN "valid" ELSE "invalid"

\* lines 85-89 and the loop around them: the user enters text at the race prompt
RaceInput ==
    /\ pc = "race_prompt"
    /\ \E text \in RaceTexts :
        /\ inputKind' = RaceEntry(text)
        /\ IF InList(text, races)
           THEN /\ race' = text
                /\ pc' = IF text = "" THEN "race_prompt" ELSE "idle"
                /\ report' = NoReport
                /\ Resumed("set_race", text # "", FALSE)
           ELSE /\ report' = InvalidMsg
                /\ Resumed("set_race", FALSE, FALSE)
                /\ UNCHANGED <<race, pc>>
    /\ exc' = NoExc
    /\ UNCHANGED <<abilities, cur, scores, generated, shuffled, startedFresh,
                   selections, pre, run, runBase, applied, diceVars>>

----------------------------------------------------------------------------
(* set_racial_traits *)

SetRacialTraits ==
    /\ MayCall("set_racial_traits", SetupFlag(randomize))
    /\ run < MaxTraitCalls
    /\ applied < MaxTraitCalls
    /\ abilities' = Traits(abilities, race)
    /\ report' = TraitsReport(abilities, race)
    /\ pc' = "idle"
    /\ exc' = NoExc
    /\ inputKind' = "none"
    /\ ClearAbilitiesCall
    /\ Called("set_racial_traits", "-", TRUE)
    /\ pre' = [set |-> TRUE, abilities |-> abilities, race |-> race]
    /\ run' = run + 1
    /\ runBase' = IF run = 0 THEN [set |-> TRUE, abilities |-> abilities] ELSE runBase
    /\ applied' = IF TraitsReport(abilities, race) = NoReport THEN applied + 1 ELSE applied
    /\ UNCHANGED <<race, diceVars>>

----------------------------------------------------------------------------
(* generate_score, one throw at a time *)

\* line 55
RollDice ==
    /\ gpc = "start"
    /\ rolls' \in DiceVectors
    /\ ri' = 1
    /\ gpc' = "reroll"
    /\ UNCHANGED <<result, playerVars, callVars, driverVars, histVars>>

\* lines 56-58, one iteration
RerollStep ==
    /\ gpc = "reroll"
    /\ ri <= NumDice
    /\ \E d \in 1..DieSides : rolls' = RerollAt(rolls, ri, d)
    /\ ri' = ri + 1
    /\ UNCHANGED <<gpc, result, playerVars, callVars, driverVars, histVars>>

\* line 59
ReturnScore ==
    /\ gpc = "reroll"
    /\ ri > NumDice
    /\ result' = DropLowestSum(rolls)
    /\ gpc' = "done"
    /\ UNCHANGED <<rolls, ri, playerVars, callVars, driverVars, histVars>>

----------------------------------------------------------------------------
(* Specifications *)

\* p = Player(), and who is to call its methods
InitPlayer ==
    /\ abilities = NewAbilities
    /\ race = NoRace
    /\ pc = "idle"
    /\ cur = 0
    /\ scores = <<>>
    /\ report = NoReport
    /\ exc = NoExc
    /\ setupLog = <<>>
    /\ generated = <<>>
    /\ shuffled = <<>>
    /\ startedFresh = FALSE
    /\ selections = 0
    /\ inputKind = "none"
    /\ pre = NoPre
    /\ run = 0
    /\ runBase = NoPre
    /\ last = <<>>
    /\ applied = 0

InitDice ==
    /\ rolls = <<>>
    /\ ri = 0
    /\ gpc = "start"
    /\ result = 0

Init ==
    /\ InitPlayer
    /\ InitDice
    /\ \/ driver = "direct" /\ randomize = FALSE /\ step = NoStep
       \/ driver = "setup_player" /\ randomize \in BOOLEAN /\ step = SetupCalls[1]

Next ==
    \/ SetAbilitiesRandom(SortedLists, SomePerms)
    \/ SetAbilitiesPrompted(SortedLists)
    \/ ScoreInput
    \/ SetRaceRandom
    \/ SetRacePrompted
    \/ RaceInput
    \/ SetRacialTraits

\* the methods of one Player called in any order, and setup_player
Spec == Init /\ [][Next]_vars

\* generate_score under every outcome of its dice
InitGen == InitPlayer /\ InitDice /\ driver = "direct" /\ randomize = FALSE /\ step = NoStep

NextGen == RollDice \/ RerollStep \/ ReturnScore

SpecGen == InitGen /\ [][NextGen]_vars

\* one call of set_abilities(True) under every list of scores and every
\* outcome of the shuffle
NextShuffle == generated = <<>> /\ SetAbilitiesRandom(AllLists, AllPerms)

SpecShuffle == InitGen /\ [][NextShuffle]_vars

\* one call of set_abilities(False) on a new Player under every list of scores
NextPrompt ==
    \/ generated = <<>> /\ SetAbilitiesPrompted(AllLists)
    \/ ScoreInput

SpecPrompt == InitGen /\ [][NextPrompt]_vars

----------------------------------------------------------------------------
(* Properties *)

AllSet(ab) == \A a \in AbilityNames : ab[a] # 0

\* the steps of the user at a prompt
AtPrompt == pc \in {"score_prompt", "race_prompt"}

\* the latest call was set_racial_traits and has returned
AfterTraits == pre.set

\* C1: set_racial_traits changes nothing when an ability is 0 or race is
\* unset: the six abilities and race are as before the call, and it reports
\* the abilities when an ability is 0 (also when race is unset as well),
\* the race otherwise.
C1_TraitsNoOpWhenUnset ==
    AfterTraits /\ (~AllSet(pre.abilities) \/ pre.race = NoRace) =>
        /\ abilities = pre.abilities
        /\ race = pre.race
        /\ ~AllSet(pre.abilities) => report = AbilitiesMsg
        /\ AllSet(pre.abilities) => report = RaceMsg

\* both checks fail, on a character some of whose abilities are assigned
C1_Witness ==
    /\ AfterTraits
    /\ pre.race = NoRace
    /\ pre.abilities["charisma"] # 0
    /\ pre.abilities["wisdom"] = 0
    /\ report = AbilitiesMsg

\* C2: with the six abilities nonzero and race set, one call of
\* set_racial_traits adds 1 to charisma and 2 to dexterity of a High Elf and
\* leaves its other four abilities alone, leaves the six abilities of a Human
\* alone, and never changes race.
C2_TraitsAddBonus ==
    AfterTraits /\ AllSet(pre.abilities) /\ pre.race # NoRace =>
        /\ race = pre.race
        /\ pre.race = "High Elf" =>
            /\ abilities["charisma"] = pre.abilities["charisma"] + 1
            /\ abilities["dexterity"] = pre.abilities["dexterity"] + 2
            /\ \A a \in AbilityNames \ {"charisma", "dexterity"} :
                   abilities[a] = pre.abilities[a]
        /\ pre.race = "Human" => abilities = pre.abilities

C2_Witness ==
    /\ AfterTraits
    /\ AllSet(pre.abilities)
    /\ pre.race = "High Elf"
    /\ abilities["dexterity"] = pre.abilities["dexterity"] + 2
    /\ report = NoReport

\* C3: every score generate_score returns lies in 3..18, whatever the four
\* dice and the rerolls of those that showed 1.  (3 is reached by C3_Witness,
\* 18 by C3_WitnessTop.)
C3_ScoreInRange == gpc = "done" => result \in 3..18

\* four dice show 1, each is rerolled and shows 1 again, which stands
C3_Witness == gpc = "done" /\ result = 3

C3_WitnessTop == gpc = "done" /\ result = 18


\* the values that occur in a list
Values(s) == {s[i] : i \in 1..Len(s)}

\* how many abilities hold v
Holding(ab, v) == Cardinality({a \in AbilityNames : ab[a] = v})

\* C4: after set_abilities(True) the i-th score of the shuffled list is the
\* value of the i-th ability in the order of construction, and the six
\* abilities hold the six generated scores, each as often as it was
\* generated.
C4_RandomAssignsEveryScore ==
    shuffled # <<>> =>
        /\ \A i \in 1..Len(AbilityOrder) : abilities[AbilityOrder[i]] = shuffled[i]
        /\ \A v \in Values(generated) \cup {abilities[a] : a \in AbilityNames} :
               Holding(abilities, v) = Count(v, generated)

\* the shuffle moved scores: the list had its lowest score first, charisma
\* gets another, and a score generated twice is held twice
C4_Witness ==
    /\ shuffled # <<>>
    /\ shuffled # generated
    /\ abilities["charisma"] # generated[1]
    /\ \E v \in Values(generated) : Count(v, generated) = 2 /\ Holding(abilities, v) = 2

\* the abilities assigned so far, as the number of those that hold v
Assigned(ab, v) == IF v = 0 THEN 0 ELSE Holding(ab, v)

\* a call of set_abilities(False) on a new Player is under way or over
PromptedFresh == generated # <<>> /\ shuffled = <<>> /\ startedFresh

\* C5: in set_abilities(False) on a new Player, an entry that is not in the
\* list changes neither the list nor an ability; an entry that is in it takes
\* one occurrence of it out of the list, and no other score, and gives it to
\* the ability asked for; so the assigned abilities and the list together
\* always hold the generated scores, each as often as generated, and after six
\* accepted entries every ability is nonzero and the list is empty.
C5_PoolAccounting ==
    /\ [](PromptedFresh =>
            /\ \A v \in (Values(generated) \cup Values(scores)
                         \cup {abilities[a] : a \in AbilityNames}) \ {0} :
                   Assigned(abilities, v) + Count(v, scores) = Count(v, generated)
            /\ selections = NumScores => AllSet(abilities) /\ scores = <<>>)
    /\ [][PromptedFresh /\ pc = "score_prompt" =>
            /\ inputKind' = "invalid" =>
                   abilities' = abilities /\ scores' = scores
            /\ inputKind' = "valid" =>
                   LET v == abilities'[AbilityOrder[cur]] IN
                   /\ v # 0
                   /\ abilities' = [abilities EXCEPT ![AbilityOrder[cur]] = v]
                   /\ Len(scores') = Len(scores) - 1
                   /\ \A u \in Values(scores) :
                          Count(u, scores') =
                              Count(u, scores) - (IF u = v THEN 1 ELSE 0)]_vars

\* six entries were accepted, of a list that held one score twice and the
\* others once or more
C5_Witness ==
    /\ PromptedFresh
    /\ selections = NumScores
    /\ scores = <<>>
    /\ \E v \in Values(generated) : Count(v, generated) = 2
    /\ report = NoReport

\* C6 as claimed: once race holds a race it never changes.
C6_RaceNeverChanges == [][(race \in RaceSet) => (race' = race)]_vars

\* C6 as the code has it: once race holds a race it always holds one, and
\* the only step that changes it is a call of set_race(True); set_abilities,
\* set_racial_traits and set_race(False) keep it.
C6_RaceChangedBySetRaceTrueOnly ==
    [][(race \in RaceSet) =>
          /\ race' \in RaceSet
          /\ race' # race => last' = <<"set_race", FlagText(TRUE)>>]_vars

\* set_race(False) was called on a character that had a race, and kept it
C6_Witness ==
    /\ race \in RaceSet
    /\ last = <<"set_race", FlagText(FALSE)>>
    /\ pc = "idle"
    /\ inputKind = "none"

\* C7: an entry at a prompt that is not a choice never ends the method: it
\* is reported as invalid, changes neither the abilities nor the list nor
\* race, and the prompt is shown again.
C7_InvalidEntryIsNotFatal ==
    [][AtPrompt /\ inputKind' = "invalid" =>
          /\ exc' = NoExc
          /\ report' = InvalidMsg
          /\ pc' = pc
          /\ abilities' = abilities
          /\ scores' = scores
          /\ race' = race]_vars


\* C8: when setup_player(randomize) returns it has called set_abilities,
\* set_race and set_racial_traits in this order, the first two with the
\* flag it was given; race is a race and the six abilities are nonzero;
\* set_racial_traits took neither of its reporting branches and applied
\* the bonus once, to scores in 3..18: charisma is in 3..19, dexterity in
\* 3..20, the others in 3..18.
C8_SetupPlayerResult ==
    driver = "setup_player" /\ step = "returned" =>
        /\ setupLog = << <<"set_abilities", FlagText(randomize)>>,
                         <<"set_race", FlagText(randomize)>>,
                         <<"set_racial_traits", "-">> >>
        /\ race \in RaceSet
        /\ AllSet(abilities)
        /\ report \notin {AbilitiesMsg, RaceMsg}
        /\ applied = 1
        /\ AfterTraits
        /\ pre.race = race
        /\ \A a \in AbilityNames : pre.abilities[a] \in 3..18
        /\ \A a \in AbilityNames :
               abilities[a] = pre.abilities[a]
                   + (IF race = "High Elf" /\ a = "charisma" THEN 1
                      ELSE IF race = "High Elf" /\ a = "dexterity" THEN 2
                      ELSE 0)
        /\ abilities["charisma"] \in 3..19
        /\ abilities["dexterity"] \in 3..20
        /\ \A a \in AbilityNames \ {"charisma", "dexterity"} : abilities[a] \in 3..18

\* setup_player(False) returns a High Elf whose dexterity is the highest
\* score and the bonus
C8_Witness ==
    /\ driver = "setup_player"
    /\ step = "returned"
    /\ ~randomize
    /\ race = "High Elf"
    /\ abilities["dexterity"] = 20
    /\ abilities["charisma"] = 4

\* C9: after n calls of set_racial_traits in a row on a High Elf whose six
\* abilities were nonzero, charisma is n higher and dexterity 2n higher than
\* before the first of them and the other four abilities are as they were;
\* each of the calls changes the abilities.
C9_TraitsAddUp ==
    run >= 1 /\ AllSet(runBase.abilities) /\ race = "High Elf" =>
        /\ abilities["charisma"] = runBase.abilities["charisma"] + run
        /\ abilities["dexterity"] = runBase.abilities["dexterity"] + 2 * run
        /\ \A a \in AbilityNames \ {"charisma", "dexterity"} :
               abilities[a] = runBase.abilities[a]
        /\ abilities # pre.abilities

\* the second call in a row
C9_Witness ==
    /\ run = 2
    /\ race = "High Elf"
    /\ AllSet(runBase.abilities)
    /\ abilities["dexterity"] = runBase.abilities["dexterity"] + 4
    /\ pre.abilities["dexterity"] = runBase.abilities["dexterity"] + 2

\* the abilities that are nonzero are the first k in the order of construction
NonzeroPrefix(ab, k) ==
    \A i \in 1..Len(AbilityOrder) : (ab[AbilityOrder[i]] # 0) <=> (i <= k)

\* C10: in set_abilities(False) on a new Player the nonzero abilities are
\* always the first ones in the order of construction, as many as entries
\* were accepted; the prompt is for the first ability that is still 0, so
\* every ability before it is nonzero; and the method has returned if and
\* only if six entries were accepted.
C10_PromptsInOrder ==
    PromptedFresh =>
        /\ selections \in 0..NumScores
        /\ NonzeroPrefix(abilities, selections)
        /\ pc = "score_prompt" => cur = selections + 1 /\ cur <= Len(AbilityOrder)
        /\ (pc = "idle" /\ exc = NoExc) <=> (selections = NumScores)

\* an entry was refused after three were accepted: the prompt is still for
\* the fourth ability
C10_Witness ==
    /\ PromptedFresh
    /\ pc = "score_prompt"
    /\ selections = 3
    /\ cur = 4
    /\ report = InvalidMsg

====
